---- MODULE Spec2Model ----
(***************************************************************************)
(* Model of hussam_dashboard/app.py: the Streamlit render routine main()   *)
(* and the seven tabular queries it runs over the movie ratings table.     *)
(*                                                                         *)
(* A table (pandas DataFrame) is a sequence of rows; a row is a record.    *)
(* A string is a sequence of one-character strings, so that str.split is   *)
(* computed and not assumed.  A float is an exact reduced fraction or NaN. *)
(***************************************************************************)
EXTENDS Integers, Sequences, FiniteSets, TLC

VARIABLES csv, file_exists, cache, pc, df, df_ec, ui, exc, params, derived

vars == <<csv, file_exists, cache, pc, df, df_ec, ui, exc, params, derived>>

(***************************************************************************)
(* Bounds of the model.                                                    *)
(***************************************************************************)
MaxQ1Rows == 20    \* rows of a table in the Q1 family
MaxGroupRows == 2  \* rows per genre / year / movie in the Q2, Q3, Q4 families
MaxYears == 5      \* distinct release years in the Q3 family
MaxMovies == 4     \* distinct (movie_id, title) keys in the Q4 family
MaxStrLen == 3     \* characters of a raw genres string in the Q7 family
MaxMinCount == 3   \* largest value typed into a "minimum ratings" number_input

(***************************************************************************)
(* Program constants (widget ranges).                                      *)
(***************************************************************************)
MinPctSteps == 20  \* st.slider(0.0, 10.0, 2.0, 0.5): min_pct = k * 0.5, k in 0..20
MaxWindow == 9     \* st.slider("Rolling mean window (years)", 1, 9, 1, 1)
MinTopN == 3       \* st.slider("Top N movies", 3, 25, 5, 1)
MaxTopN == 25

(***************************************************************************)
(* Strings.                                                                *)
(***************************************************************************)
Ord ==
  (" " :> 32) @@ ("(" :> 40) @@ (")" :> 41) @@ ("A" :> 65) @@ ("B" :> 66) @@
  ("C" :> 67) @@ ("O" :> 79) @@ ("d" :> 100) @@ ("e" :> 101) @@ ("g" :> 103) @@
  ("h" :> 104) @@ ("i" :> 105) @@ ("l" :> 108) @@ ("n" :> 110) @@ ("o" :> 111) @@
  ("r" :> 114) @@ ("s" :> 115) @@ ("t" :> 116) @@ ("|" :> 124)

\* Python's str < str: lexicographic by code point.
RECURSIVE StrLess(_, _)
StrLess(a, b) ==
  IF b = <<>> THEN FALSE
  ELSE IF a = <<>> THEN TRUE
  ELSE IF Ord[Head(a)] # Ord[Head(b)] THEN Ord[Head(a)] < Ord[Head(b)]
  ELSE StrLess(Tail(a), Tail(b))

\* A cell of an object column: a string, or NaN (a missing value).
NaN == [isna |-> TRUE, str |-> <<>>]
Str(s) == [isna |-> FALSE, str |-> s]

OtherLabel == Str(<<"O", "t", "h", "e", "r">>)
NoGenresLabel ==
  Str(<<"(", "n", "o", " ", "g", "e", "n", "r", "e", "s", " ",
        "l", "i", "s", "t", "e", "d", ")">>)
PipeChar == "|"

\* Order of the group keys of groupby(..., dropna=False): sorted, NaN last.
CellLess(g, h) ==
  IF g.isna THEN FALSE
  ELSE IF h.isna THEN TRUE
  ELSE StrLess(g.str, h.str)

(***************************************************************************)
(* Floats, as exact fractions in lowest terms.                             *)
(***************************************************************************)
RECURSIVE GCD(_, _)
GCD(a, b) == IF b = 0 THEN a ELSE GCD(b, a % b)

Rat(n, d) ==
  LET g == GCD(n, d)
  IN  [isna |-> FALSE, num |-> n \div g, den |-> d \div g]

FloatNaN == [isna |-> TRUE, num |-> 0, den |-> 1]

RatLess(a, b) == a.num * b.den < b.num * a.den
RatLeq(a, b) == a.num * b.den <= b.num * a.den
RatAdd(a, b) == Rat(a.num * b.den + b.num * a.den, a.den * b.den)
RatDiv(a, k) == Rat(a.num, a.den * k)

RECURSIVE RatSum(_)
RatSum(s) == IF s = <<>> THEN Rat(0, 1) ELSE RatAdd(Head(s), RatSum(Tail(s)))

(***************************************************************************)
(* Tables.                                                                 *)
(***************************************************************************)
Row(m, t, g, r, y, a) ==
  [movie_id |-> m, title |-> t, genres |-> g, rating |-> r, year |-> y, age |-> a]

Range(s) == {s[i] : i \in DOMAIN s}

Max(a, b) == IF a >= b THEN a ELSE b
Min(a, b) == IF a <= b THEN a ELSE b

\* DataFrame.head(n)
HeadN(t, n) == SubSeq(t, 1, Min(n, Len(t)))

RECURSIVE SumInt(_)
SumInt(s) == IF s = <<>> THEN 0 ELSE Head(s) + SumInt(Tail(s))

RECURSIVE Concat(_)
Concat(ss) == IF ss = <<>> THEN <<>> ELSE Head(ss) \o Concat(Tail(ss))

Reverse(s) == [i \in 1..Len(s) |-> s[Len(s) + 1 - i]]

\* n copies of x
Rep(x, n) == [i \in 1..n |-> x]

\* Series.mean() / size of the rating column of a group
RatingsOf(rows) == [i \in 1..Len(rows) |-> rows[i].rating]
MeanRating(rows) == Rat(SumInt(RatingsOf(rows)), Len(rows))

\* Group keys in groupby order (sort=True).
RECURSIVE SortedCells(_)
SortedCells(S) ==
  IF S = {} THEN <<>>
  ELSE LET m == CHOOSE x \in S : \A y \in S \ {x} : CellLess(x, y)
       IN  <<m>> \o SortedCells(S \ {m})

RECURSIVE SortedInts(_)
SortedInts(S) ==
  IF S = {} THEN <<>>
  ELSE LET m == CHOOSE x \in S : \A y \in S : x <= y
       IN  <<m>> \o SortedInts(S \ {m})

\* Before a tab has read its widgets / handed a table to its chart.
NoParams == [none |-> TRUE]
NoDerived == [tab |-> "none", table |-> <<>>]

(***************************************************************************)
(* The cached loaders.  st.cache_data keeps the value read from the file   *)
(* for ttl seconds and hands every caller its own copy of it.              *)
(***************************************************************************)
NoEntry == [hit |-> FALSE, val |-> <<>>]
Entry(t) == [hit |-> TRUE, val |-> t]

Loaders == {"load_movie_ratings", "load_movie_ratings_ec"}

\* Whether a call of the loader raises FileNotFoundError.
LoadRaises(l) == ~cache[l].hit /\ ~file_exists
\* The table a successful call returns and the cache after it.
LoadValue(l) == IF cache[l].hit THEN cache[l].val ELSE csv
CacheAfterLoad(l) == IF cache[l].hit THEN cache ELSE [cache EXCEPT ![l] = Entry(csv)]

(***************************************************************************)
(* Q1: genre breakdown (lines 74-99).                                      *)
(***************************************************************************)
\* df.groupby("genres", dropna=False).size().reset_index(name="count")
GenreSizeDropna(t, keepna) ==
  LET keys == SortedCells({t[i].genres : i \in {j \in DOMAIN t : keepna \/ ~t[j].genres.isna}})
  IN  [k \in 1..Len(keys) |->
        [genres |-> keys[k],
         count |-> Cardinality({i \in DOMAIN t : t[i].genres = keys[k]})]]

GenreSizeMutDropna(t) == GenreSizeDropna(t, FALSE)

GenreSize(t) == GenreSizeDropna(t, TRUE)

\* .sort_values("count", ascending=False): the default sort is not stable, so
\* rows of equal count come out in any order.
RECURSIVE ByCountDesc(_)
ByCountDesc(S) ==
  IF S = {} THEN {<<>>}
  ELSE UNION {{<<x>> \o s : s \in ByCountDesc(S \ {x})} :
              x \in {x \in S : \A y \in S : y.count <= x.count}}

\* genre_counts["pct"] = 100 * genre_counts["count"] / max(total, 1)
WithPct(gc) ==
  LET total == SumInt([i \in 1..Len(gc) |-> gc[i].count])
  IN  [i \in 1..Len(gc) |->
        [genres |-> gc[i].genres, count |-> gc[i].count,
         pct |-> Rat(100 * gc[i].count, Max(total, 1))]]

PctOf(k) == Rat(k, 2)

IsMajorMutStrict(row, min_pct) == RatLess(min_pct, row.pct)

\* genre_counts["pct"] >= min_pct
IsMajor(row, min_pct) == RatLeq(min_pct, row.pct)
\* genre_counts["pct"] < min_pct
IsMinor(row, min_pct) == RatLess(row.pct, min_pct)

Q1Display(genre_counts, min_pct) ==
  LET major == SelectSeq(genre_counts, LAMBDA r : IsMajor(r, min_pct))
      minor == SelectSeq(genre_counts, LAMBDA r : IsMinor(r, min_pct))
      other_row ==
        [genres |-> OtherLabel,
         count |-> SumInt([i \in 1..Len(minor) |-> minor[i].count]),
         pct |-> RatSum([i \in 1..Len(minor) |-> minor[i].pct])]
  IN  IF minor # <<>> THEN major \o <<other_row>> ELSE major

\* Every display_df the Q1 block can build from table t under threshold min_pct.
Q1Outcomes(t, min_pct) ==
  {Q1Display(WithPct(order), min_pct) : order \in ByCountDesc(Range(GenreSize(t)))}

Q1Tab ==
  /\ pc = "Q1"
  /\ \E k \in 0..MinPctSteps :
       \E display_df \in Q1Outcomes(df, PctOf(k)) :
         /\ params' = [min_pct |-> PctOf(k)]
         /\ derived' = [tab |-> "Q1", table |-> display_df]
  /\ ui' = ui \o <<"Q1 subheader", "Q1 pie">>
  /\ pc' = "Q2"
  /\ UNCHANGED <<csv, file_exists, cache, df, df_ec, exc>>

(***************************************************************************)
(* Q2: average rating by genre (lines 106-120).                            *)
(***************************************************************************)
\* df.groupby("genres", dropna=...).agg(mean_rating=("rating", "mean"),
\*                                      n_ratings=("rating", "size")).reset_index()
GenreStatsDropna(t, keepna) ==
  LET keys == SortedCells({t[i].genres : i \in {j \in DOMAIN t : keepna \/ ~t[j].genres.isna}})
  IN  [k \in 1..Len(keys) |->
        LET rows == SelectSeq(t, LAMBDA r : r.genres = keys[k])
        IN  [genres |-> keys[k], mean_rating |-> MeanRating(rows), n_ratings |-> Len(rows)]]

GenreStats(t) == GenreStatsDropna(t, TRUE)

\* sort_values("mean_rating", ascending=ascending): the default sort is not
\* stable, so rows of equal mean rating come out in any order.
RECURSIVE ByMean(_, _)
ByMean(S, ascending) ==
  IF S = {} THEN {<<>>}
  ELSE UNION {{<<x>> \o s : s \in ByMean(S \ {x}, ascending)} :
              x \in {x \in S : \A y \in S :
                       IF ascending THEN RatLeq(x.mean_rating, y.mean_rating)
                                    ELSE RatLeq(y.mean_rating, x.mean_rating)}}

SortOrders == {"Descending", "Ascending"}

Q2AscendingMutIgnored(sort_order) == TRUE

\* ascending = sort_order == "Ascending"
Q2Ascending(sort_order) == sort_order = "Ascending"

\* Every `filtered` the Q2 block can build.
Q2Outcomes(t, min_count, sort_order) ==
  LET genre_stats == GenreStats(t)
      filtered == SelectSeq(genre_stats, LAMBDA r : r.n_ratings >= min_count)
  IN  ByMean(Range(filtered), Q2Ascending(sort_order))

Q2Tab ==
  /\ pc = "Q2"
  /\ \E min_count \in 0..MaxMinCount, sort_order \in SortOrders :
       \E filtered \in Q2Outcomes(df, min_count, sort_order) :
         /\ params' = [min_count |-> min_count, sort_order |-> sort_order]
         /\ derived' = [tab |-> "Q2", table |-> filtered]
  /\ ui' = ui \o <<"Q2 subheader", "Q2 bar">>
  /\ pc' = "Q3"
  /\ UNCHANGED <<csv, file_exists, cache, df, df_ec, exc>>

(***************************************************************************)
(* Q3: average rating by release year (lines 127-150).                     *)
(***************************************************************************)
\* df.groupby("year", dropna=False).agg(mean_rating, n_ratings).reset_index()
YearStats(t) ==
  LET keys == SortedInts({t[i].year : i \in DOMAIN t})
  IN  [k \in 1..Len(keys) |->
        LET rows == SelectSeq(t, LAMBDA r : r.year = keys[k])
        IN  [year |-> keys[k], mean_rating |-> MeanRating(rows), n_ratings |-> Len(rows)]]

YearInRangeMutExclusive(r, lo, hi, min_count_year) ==
  r.year > lo /\ r.year <= hi /\ r.n_ratings >= min_count_year

\* mask & (year_stats["n_ratings"] >= min_count_year)
YearInRange(r, lo, hi, min_count_year) ==
  r.year >= lo /\ r.year <= hi /\ r.n_ratings >= min_count_year

\* sort_values("year"): the years of year_stats are distinct
RECURSIVE SortByYear(_)
SortByYear(S) ==
  IF S = {} THEN <<>>
  ELSE LET m == CHOOSE x \in S : \A y \in S : x.year <= y.year
       IN  <<m>> \o SortByYear(S \ {m})

\* The window of Series.rolling(window=w, center=...) at position i (1-based):
\* positions i + offset - w + 1 .. i + offset, offset = (w - 1) // 2 when centred.
WindowOffset(w, center) == IF center THEN (w - 1) \div 2 ELSE 0

RollingMeanAt(x, i, w, center) ==
  LET last == i + WindowOffset(w, center)
      first == last - w + 1
      obs == {j \in first..last : j \in DOMAIN x}
  IN  \* min_periods defaults to the window size
      IF Cardinality(obs) < w THEN FloatNaN
      ELSE RatDiv(RatSum([k \in 1..w |-> x[first + k - 1]]), w)

RollingMeanMutTrailing(x, w) == [i \in DOMAIN x |-> RollingMeanAt(x, i, w, FALSE)]

\* x.rolling(window=w, center=True).mean()
RollingMean(x, w) == [i \in DOMAIN x |-> RollingMeanAt(x, i, w, TRUE)]

Q3Filtered(t, lo, hi, min_count_year, smooth_window) ==
  LET year_stats == YearStats(t)
      year_filtered ==
        SortByYear(Range(SelectSeq(year_stats,
                                   LAMBDA r : YearInRange(r, lo, hi, min_count_year))))
      raw == [i \in DOMAIN year_filtered |-> year_filtered[i].mean_rating]
      smoothed == IF smooth_window > 1 /\ year_filtered # <<>>
                    THEN RollingMean(raw, smooth_window)
                    ELSE raw
  IN  [i \in DOMAIN year_filtered |->
        [year |-> year_filtered[i].year,
         mean_rating |-> year_filtered[i].mean_rating,
         n_ratings |-> year_filtered[i].n_ratings,
         mean_rating_smoothed |-> smoothed[i]]]

\* df["year"].min() / .max(); NaN on a table without rows
HasYears(t) == t # <<>>
YearMin(t) == CHOOSE y \in {t[i].year : i \in DOMAIN t} : \A i \in DOMAIN t : y <= t[i].year
YearMax(t) == CHOOSE y \in {t[i].year : i \in DOMAIN t} : \A i \in DOMAIN t : y >= t[i].year

Q3Tab ==
  /\ pc = "Q3"
  /\ IF ~HasYears(df)
       THEN \* int(df["year"].min()): ValueError, cannot convert float NaN to integer
            /\ exc' = "ValueError"
            /\ pc' = "raised"
            /\ ui' = Append(ui, "Q3 subheader")
            /\ UNCHANGED <<params, derived>>
       ELSE /\ \E lo \in YearMin(df)..YearMax(df), hi \in YearMin(df)..YearMax(df),
                  min_count_year \in 0..MaxMinCount, smooth_window \in 1..MaxWindow :
                 /\ lo <= hi
                 /\ params' = [year_range |-> <<lo, hi>>,
                               min_count_year |-> min_count_year,
                               smooth_window |-> smooth_window]
                 /\ derived' = [tab |-> "Q3",
                                table |-> Q3Filtered(df, lo, hi, min_count_year, smooth_window)]
            /\ ui' = ui \o <<"Q3 subheader", "Q3 line">>
            /\ pc' = "Q4"
            /\ exc' = exc
  /\ UNCHANGED <<csv, file_exists, cache, df, df_ec>>

(***************************************************************************)
(* Q4: top movies (lines 157-169).                                         *)
(***************************************************************************)
MovieKeyLess(a, b) ==
  \/ a[1] < b[1]
  \/ a[1] = b[1] /\ StrLess(a[2], b[2])

RECURSIVE SortedMovieKeys(_)
SortedMovieKeys(S) ==
  IF S = {} THEN <<>>
  ELSE LET m == CHOOSE x \in S : \A y \in S \ {x} : MovieKeyLess(x, y)
       IN  <<m>> \o SortedMovieKeys(S \ {m})

\* df.groupby(["movie_id", "title"], dropna=False).agg(...).reset_index()
MovieStats(t) ==
  LET keys == SortedMovieKeys({<<t[i].movie_id, t[i].title>> : i \in DOMAIN t})
  IN  [k \in 1..Len(keys) |->
        LET rows == SelectSeq(t, LAMBDA r : r.movie_id = keys[k][1] /\ r.title = keys[k][2])
        IN  [movie_id |-> keys[k][1], title |-> keys[k][2],
             mean_rating |-> MeanRating(rows), n_ratings |-> Len(rows)]]

RanksBeforeMutCountAsc(a, b) ==
  \/ RatLess(b.mean_rating, a.mean_rating)
  \/ a.mean_rating = b.mean_rating /\ a.n_ratings < b.n_ratings

\* the key of sort_values(["mean_rating", "n_ratings"], ascending=[False, False])
RanksBefore(a, b) ==
  \/ RatLess(b.mean_rating, a.mean_rating)
  \/ a.mean_rating = b.mean_rating /\ a.n_ratings > b.n_ratings

\* A sort on several columns is stable: x goes before the first row it ranks before.
RECURSIVE InsertRanked(_, _)
InsertRanked(sorted, x) ==
  IF sorted = <<>> THEN <<x>>
  ELSE IF RanksBefore(x, Head(sorted)) THEN <<x>> \o sorted
  ELSE <<Head(sorted)>> \o InsertRanked(Tail(sorted), x)

RECURSIVE SortRanked(_)
SortRanked(s) ==
  IF s = <<>> THEN <<>>
  ELSE InsertRanked(SortRanked(SubSeq(s, 1, Len(s) - 1)), s[Len(s)])

Q4TopMovies(t, min_ratings_movie, top_n) ==
  LET movie_stats == MovieStats(t)
      movie_filtered == SelectSeq(movie_stats, LAMBDA r : r.n_ratings >= min_ratings_movie)
  IN  HeadN(SortRanked(movie_filtered), top_n)

Q4Tab ==
  /\ pc = "Q4"
  /\ \E min_ratings_movie \in 1..MaxMinCount, top_n \in MinTopN..MaxTopN :
       /\ params' = [min_ratings_movie |-> min_ratings_movie, top_n |-> top_n]
       /\ derived' = [tab |-> "Q4", table |-> Q4TopMovies(df, min_ratings_movie, top_n)]
  /\ ui' = ui \o <<"Q4 subheader", "Q4 bar">>
  /\ pc' = "Q5"
  /\ UNCHANGED <<csv, file_exists, cache, df, df_ec, exc>>

(***************************************************************************)
(* Q5: ratings vs age for selected genres (lines 176-186).                 *)
(***************************************************************************)
AgeGenreLess(a, b) ==
  \/ a[1] < b[1]
  \/ a[1] = b[1] /\ CellLess(a[2], b[2])

RECURSIVE SortedAgeGenres(_)
SortedAgeGenres(S) ==
  IF S = {} THEN <<>>
  ELSE LET m == CHOOSE x \in S : \A y \in S \ {x} : AgeGenreLess(x, y)
       IN  <<m>> \o SortedAgeGenres(S \ {m})

\* df[df["genres"].isin(genres_to_compare)].groupby(["age", "genres"]).agg(...)
\* (groupby drops the rows whose key is NaN)
Q5AgeStats(t, genres_to_compare) ==
  LET sel == SelectSeq(t, LAMBDA r : r.genres \in genres_to_compare /\ ~r.genres.isna)
      keys == SortedAgeGenres({<<sel[i].age, sel[i].genres>> : i \in DOMAIN sel})
  IN  [k \in 1..Len(keys) |->
        LET rows == SelectSeq(sel, LAMBDA r : r.age = keys[k][1] /\ r.genres = keys[k][2])
        IN  [age |-> keys[k][1], genres |-> keys[k][2],
             mean_rating |-> MeanRating(rows), n_ratings |-> Len(rows)]]

Q5Tab ==
  /\ pc = "Q5"
  /\ \E genres_to_compare \in SUBSET {df[i].genres : i \in DOMAIN df} :
       /\ params' = [genres_to_compare |-> genres_to_compare]
       /\ derived' = [tab |-> "Q5", table |-> Q5AgeStats(df, genres_to_compare)]
  /\ ui' = ui \o <<"Q5 subheader", "Q5 line">>
  /\ pc' = "Q6"
  /\ UNCHANGED <<csv, file_exists, cache, df, df_ec, exc>>

(***************************************************************************)
(* Q6: ratings volume vs average per genre (lines 192-199).                *)
(***************************************************************************)
\* df.groupby("genres").agg(...): the default dropna=True
Q6GenreStats(t) == GenreStatsDropna(t, FALSE)

Q6Tab ==
  /\ pc = "Q6"
  /\ params' = NoParams
  /\ derived' = [tab |-> "Q6", table |-> Q6GenreStats(df)]
  /\ ui' = ui \o <<"Q6 subheader", "Q6 scatter">>
  /\ pc' = "Q7"
  /\ UNCHANGED <<csv, file_exists, cache, df, df_ec, exc>>

(***************************************************************************)
(* Q7: cleaning the genres of the raw dataset (lines 203-213).             *)
(***************************************************************************)
FillNaMutSkipped(cell) == cell

\* Series.fillna("(no genres listed)")
FillNa(cell) == IF cell.isna THEN NoGenresLabel ELSE cell

\* str.split("|") of one string: the pieces between the separators
RECURSIVE Split(_)
Split(s) ==
  IF \A i \in DOMAIN s : s[i] # PipeChar THEN <<s>>
  ELSE LET i == CHOOSE k \in DOMAIN s : s[k] = PipeChar /\ \A j \in 1..(k - 1) : s[j] # PipeChar
       IN  <<SubSeq(s, 1, i - 1)>> \o Split(SubSeq(s, i + 1, Len(s)))

\* df_ec["genres"] = df_ec["genres"].fillna("(no genres listed)")
Q7Filled(t) == [i \in DOMAIN t |-> [t[i] EXCEPT !.genres = FillNa(t[i].genres)]]

\* one row of .assign(genres=...str.split("|")).explode("genres"): a row per
\* piece, the other columns repeated; a NaN cell stays one row with NaN
ExplodeRow(r) ==
  IF r.genres.isna THEN <<r>>
  ELSE LET pieces == Split(r.genres.str)
       IN  [k \in 1..Len(pieces) |-> [r EXCEPT !.genres = Str(pieces[k])]]

Q7Cleaned(filled) == Concat([i \in DOMAIN filled |-> ExplodeRow(filled[i])])

EC == "load_movie_ratings_ec"
PRIMARY == "load_movie_ratings"

Q7Tab ==
  /\ pc = "Q7"
  /\ IF LoadRaises(EC)
       THEN \* except FileNotFoundError: st.error(...)
            /\ ui' = ui \o <<"Q7 subheader", "error">>
            /\ UNCHANGED <<cache, df_ec, params, derived>>
       ELSE /\ cache' = CacheAfterLoad(EC)
            /\ df_ec' = Q7Filled(LoadValue(EC))
            /\ params' = NoParams
            /\ derived' = [tab |-> "Q7", table |-> Q7Cleaned(Q7Filled(LoadValue(EC)))]
            /\ ui' = ui \o <<"Q7 subheader", "Q7 raw preview", "Q7 cleaned preview">>
  /\ pc' = "returned"
  /\ UNCHANGED <<csv, file_exists, df, exc>>

(***************************************************************************)
(* main(): header, primary load, sidebar, tabs (lines 38-67).              *)
(***************************************************************************)
PcAfterLoadErrorMutNoReturn == "sidebar"

\* st.error(...); return
PcAfterLoadError == "returned"

MainStart ==
  /\ pc = "main"
  /\ IF LoadRaises(PRIMARY)
       THEN /\ ui' = <<"title", "caption", "error">>
            /\ pc' = PcAfterLoadError
            /\ UNCHANGED <<cache, df>>
       ELSE /\ ui' = <<"title", "caption">>
            /\ cache' = CacheAfterLoad(PRIMARY)
            /\ df' = LoadValue(PRIMARY)
            /\ pc' = "sidebar"
  /\ UNCHANGED <<csv, file_exists, df_ec, exc, params, derived>>

\* render_sidebar, the raw-data expander and st.tabs
Sidebar ==
  /\ pc = "sidebar"
  /\ \E show_raw \in BOOLEAN :
       ui' = ui \o <<"sidebar">> \o (IF show_raw THEN <<"raw data">> ELSE <<>>) \o <<"tabs">>
  /\ pc' = "Q1"
  /\ UNCHANGED <<csv, file_exists, cache, df, df_ec, exc, params, derived>>

\* The next user interaction runs main() again from the top.
Rerun ==
  /\ pc \in {"returned", "raised"}
  /\ pc' = "main"
  /\ ui' = <<>>
  /\ exc' = "none"
  /\ df' = <<>>
  /\ df_ec' = <<>>
  /\ params' = NoParams
  /\ derived' = NoDerived
  /\ UNCHANGED <<csv, file_exists, cache>>

(***************************************************************************)
(* The environment: the data file and the ttl of the cache.                *)
(***************************************************************************)
RemoveFile ==
  /\ file_exists
  /\ file_exists' = FALSE
  /\ UNCHANGED <<csv, cache, pc, df, df_ec, ui, exc, params, derived>>

RestoreFile ==
  /\ ~file_exists
  /\ file_exists' = TRUE
  /\ UNCHANGED <<csv, cache, pc, df, df_ec, ui, exc, params, derived>>

\* ttl=3600 has elapsed for the loader's entry
Expire ==
  /\ \E l \in Loaders :
       /\ cache[l].hit
       /\ cache' = [cache EXCEPT ![l] = NoEntry]
  /\ UNCHANGED <<csv, file_exists, pc, df, df_ec, ui, exc, params, derived>>

(***************************************************************************)
(* Table families and specifications.                                      *)
(***************************************************************************)
GA == Str(<<"A">>)
GB == Str(<<"B">>)
TitleA == <<"A">>
TitleB == <<"B">>

\* The state of main() on entering tab `tab` with table t loaded and cached.
AtTab(tab, t) ==
  /\ csv = t
  /\ file_exists = TRUE
  /\ cache = [l \in Loaders |-> IF l = "load_movie_ratings" THEN Entry(t) ELSE NoEntry]
  /\ pc = tab
  /\ df = t
  /\ df_ec = <<>>
  /\ ui = <<>>
  /\ exc = "none"
  /\ params = NoParams
  /\ derived = NoDerived

Q1Genres == <<GA, GB, OtherLabel, NaN>>

\* Tables of at most MaxQ1Rows rows, given by the number of rows of each genre
\* (the Q1 block reads nothing but the genres column, and groupby sorts it).
Q1Tables ==
  {Concat([g \in 1..Len(Q1Genres) |-> Rep(Row(1, TitleA, Q1Genres[g], 3, 1995, 25), n[g])]) :
     n \in {c \in [1..Len(Q1Genres) -> 0..MaxQ1Rows] :
              SumInt([g \in 1..Len(Q1Genres) |-> c[g]]) <= MaxQ1Rows}}

InitQ1 == \E t \in Q1Tables : AtTab("Q1", t)

SpecQ1 == InitQ1 /\ [][Q1Tab]_vars

\* The ratings of one group: nondecreasing lists of at most n ratings.
Ratings == {1, 2, 3}
RatingLists(n) ==
  {s \in UNION {[1..k -> Ratings] : k \in 0..n} : \A i \in 1..(Len(s) - 1) : s[i] <= s[i + 1]}

\* Q2: three genres (one of them missing), each with its own list of ratings.
Q2Genres == <<GA, GB, NaN>>
Q2Tables ==
  {Concat([g \in 1..Len(Q2Genres) |->
             [i \in 1..Len(rs[g]) |-> Row(g, TitleA, Q2Genres[g], rs[g][i], 1995, 25)]]) :
     rs \in [1..Len(Q2Genres) -> RatingLists(MaxGroupRows)]}

InitQ2 == \E t \in Q2Tables : AtTab("Q2", t)

SpecQ2 == InitQ2 /\ [][Q2Tab]_vars

\* Q3: the MaxYears release years from 1991 on, each without ratings, with one, or
\* with two of another mean.
Q3YearRatings == {<<>>, <<1>>, <<2, 3>>}
Q3Tables ==
  {Concat([y \in 1..MaxYears |->
             [i \in 1..Len(rs[y]) |-> Row(y, TitleA, GA, rs[y][i], 1990 + y, 25)]]) :
     rs \in [1..MaxYears -> Q3YearRatings]}

InitQ3 == \E t \in Q3Tables : AtTab("Q3", t)

SpecQ3 == InitQ3 /\ [][Q3Tab]_vars

\* Q4: the first MaxMovies of these (movie_id, title) keys, each with a list of
\* ratings; two keys share a movie_id and two share a title.  A table on which
\* Q3 raised never reaches Q4, so the table without rows is left out.
MovieKeys == <<<<1, TitleA>>, <<1, TitleB>>, <<2, TitleA>>, <<3, TitleB>>,
               <<4, TitleA>>, <<5, TitleB>>>>
Q4MovieRatings == {<<>>, <<2>>, <<3>>, <<1, 3>>}
Q4Tables ==
  {Concat([k \in 1..MaxMovies |->
             [i \in 1..Len(rs[k]) |->
                Row(MovieKeys[k][1], MovieKeys[k][2], GA, rs[k][i], 1995, 25)]]) :
     rs \in [1..MaxMovies -> Q4MovieRatings]} \ {<<>>}

InitQ4 == \E t \in Q4Tables : AtTab("Q4", t)

SpecQ4 == InitQ4 /\ [][Q4Tab]_vars

\* Q7: one or two rows whose genres cell is NaN or any string of at most
\* MaxStrLen characters over A, B and the separator.
Q7Chars == {"A", "B", PipeChar}
Q7Cells == {NaN} \cup {Str(s) : s \in UNION {[1..k -> Q7Chars] : k \in 0..MaxStrLen}}
Q7Tables ==
  {<<Row(1, TitleA, g, 3, 1995, 25)>> : g \in Q7Cells}
    \cup {<<Row(1, TitleA, g, 3, 1995, 25), Row(2, TitleB, h, 1, 1996, 30)>> :
            g \in Q7Cells, h \in Q7Cells}

InitQ7 ==
  /\ \E t \in Q7Tables : AtTab("Q7", t)

SpecQ7 == InitQ7 /\ [][Q7Tab]_vars

\* The whole render routine, rerun after rerun, on small data files.
MainRows ==
  {Row(1, TitleA, GA, 3, 1995, 25),
   Row(2, TitleB, NaN, 1, 1996, 30),
   Row(1, TitleA, Str(<<"A", PipeChar, "B">>), 2, 1995, 25)}
MainTables == UNION {[1..k -> MainRows] : k \in 0..2}

Init ==
  /\ csv \in MainTables
  /\ file_exists \in BOOLEAN
  /\ cache = [l \in Loaders |-> NoEntry]
  /\ pc = "main"
  /\ df = <<>>
  /\ df_ec = <<>>
  /\ ui = <<>>
  /\ exc = "none"
  /\ params = NoParams
  /\ derived = NoDerived

Next ==
  \/ MainStart
  \/ Sidebar
  \/ Q1Tab
  \/ Q2Tab
  \/ Q3Tab
  \/ Q4Tab
  \/ Q5Tab
  \/ Q6Tab
  \/ Q7Tab
  \/ Rerun
  \/ RemoveFile
  \/ RestoreFile
  \/ Expire

Spec == Init /\ [][Next]_vars

(***************************************************************************)
(* Properties of the Q1 block.                                             *)
(***************************************************************************)
Q1Done == derived.tab = "Q1"
Q1Pcts == [i \in 1..Len(derived.table) |-> derived.table[i].pct]
Q1Counts == [i \in 1..Len(derived.table) |-> derived.table[i].count]
Q1OtherRows == {i \in DOMAIN derived.table : derived.table[i].genres = OtherLabel}

\* The genres of table t and their shares, read off the table itself.
GenresIn(t) == {t[i].genres : i \in DOMAIN t}
RowsOfGenre(t, g) == Cardinality({i \in DOMAIN t : t[i].genres = g})
\* share of g  <  p   and   share of g  >=  p   (p a fraction, in percent)
ShareBelow(t, g, p) == 100 * RowsOfGenre(t, g) * p.den < p.num * Len(t)
ShareEquals(t, g, p) == 100 * RowsOfGenre(t, g) * p.den = p.num * Len(t)
SomeShareBelow(t, p) == \E g \in GenresIn(t) : ShareBelow(t, g, p)

\* C1 as stated: for every table and threshold, the percentages of the Q1
\* output rows sum to 100 and their counts sum to the number of rows of the table.
C1_AsStated ==
  Q1Done => /\ RatSum(Q1Pcts) = Rat(100, 1)
            /\ SumInt(Q1Counts) = Len(df)

\* C1 amended: the counts of the Q1 output rows always sum to the number of rows
\* of the table; the percentages sum to 100 when the table has at least one row,
\* and the output of a table with no rows is empty (its percentages sum to 0).
C1_PctAndCountTotals ==
  Q1Done => /\ SumInt(Q1Counts) = Len(df)
            /\ Len(df) > 0 => RatSum(Q1Pcts) = Rat(100, 1)
            /\ Len(df) = 0 => derived.table = <<>>

C1_Witness ==
  /\ Q1Done
  /\ Len(derived.table) >= 3
  /\ derived.table[Len(derived.table)].genres = OtherLabel
  /\ derived.table[Len(derived.table)].count >= 2
  /\ \E i \in DOMAIN df : df[i].genres.isna

\* C2 as stated: the number of output rows labelled "Other" is 1 when some genre
\* has a share strictly below p, and 0 otherwise.
C2_AsStated ==
  Q1Done =>
    Cardinality(Q1OtherRows) = IF SomeShareBelow(df, params.min_pct) THEN 1 ELSE 0

\* C2 amended: the Q1 output is one row per genre whose share is >= p, followed
\* by exactly one aggregate row labelled "Other" (holding the rows of the genres
\* below p) when some genre has a share strictly below p and by none otherwise;
\* when no genre of the table is itself labelled "Other", the number of rows
\* labelled "Other" is therefore 1 or 0 accordingly.
C2_OneOtherRowIffMinor ==
  Q1Done =>
    LET p == params.min_pct
        kept == {g \in GenresIn(df) : ~ShareBelow(df, g, p)}
        below == {g \in GenresIn(df) : ShareBelow(df, g, p)}
        out == derived.table
        n == Cardinality(kept)
    IN  /\ Len(out) = n + (IF below # {} THEN 1 ELSE 0)
        /\ {out[i].genres : i \in 1..n} = kept
        /\ below # {} =>
             /\ out[Len(out)].genres = OtherLabel
             /\ out[Len(out)].count = Cardinality({i \in DOMAIN df : df[i].genres \in below})
        /\ OtherLabel \notin GenresIn(df) =>
             Cardinality(Q1OtherRows) = IF below # {} THEN 1 ELSE 0

\* a genre sits exactly on the threshold and is kept, another is below it
C2_Witness ==
  /\ Q1Done
  /\ OtherLabel \notin GenresIn(df)
  /\ params.min_pct.num > 0
  /\ \E g \in GenresIn(df) :
       /\ ShareEquals(df, g, params.min_pct)
       /\ \E i \in DOMAIN derived.table : derived.table[i].genres = g
  /\ SomeShareBelow(df, params.min_pct)
  /\ Cardinality(Q1OtherRows) = 1

(***************************************************************************)
(* Properties of the Q2 block.                                             *)
(***************************************************************************)
Q2Done == derived.tab = "Q2"
OtherOrder(o) == IF o = "Ascending" THEN "Descending" ELSE "Ascending"
MeansOf(t) == [i \in DOMAIN t |-> t[i].mean_rating]
\* the genres with at least m ratings, read off the table itself
GenresWithAtLeast(t, m) == {g \in GenresIn(t) : RowsOfGenre(t, g) >= m}
Q2RowsExact(t, m, out) ==
  /\ {out[i].genres : i \in DOMAIN out} = GenresWithAtLeast(t, m)
  /\ Len(out) = Cardinality(GenresWithAtLeast(t, m))
  /\ \A i \in DOMAIN out : out[i].n_ratings = RowsOfGenre(t, out[i].genres)

\* C4 as stated: for a fixed table and threshold m, the Q2 output under one
\* sort direction is exactly the output under the other direction read back to
\* front, both holding exactly the genres with n_ratings >= m.
C4_AsStated ==
  Q2Done =>
    /\ Q2RowsExact(df, params.min_count, derived.table)
    /\ \A other \in Q2Outcomes(df, params.min_count, OtherOrder(params.sort_order)) :
         derived.table = Reverse(other)

\* C4 amended: both directions output exactly the genres with n_ratings >= m,
\* and the mean ratings of one output are those of the other read back to
\* front; the rows themselves are in exactly reversed order whenever no two
\* output genres have the same mean rating (tied genres may keep their order).
C4_ReversedUpToTies ==
  Q2Done =>
    /\ Q2RowsExact(df, params.min_count, derived.table)
    /\ \A other \in Q2Outcomes(df, params.min_count, OtherOrder(params.sort_order)) :
         /\ Range(other) = Range(derived.table)
         /\ MeansOf(derived.table) = Reverse(MeansOf(other))
         /\ (\A i, j \in DOMAIN other : i # j => other[i].mean_rating # other[j].mean_rating)
              => derived.table = Reverse(other)

C4_Witness ==
  /\ Q2Done
  /\ params.sort_order = "Descending"
  /\ params.min_count = 2
  /\ Len(derived.table) = 2
  /\ RatLess(derived.table[2].mean_rating, derived.table[1].mean_rating)
  /\ Cardinality(GenresIn(df)) = 3

(***************************************************************************)
(* Properties of the Q3 block.                                             *)
(***************************************************************************)
Q3Done == derived.tab = "Q3"
RowsOfYear(t, y) == Cardinality({i \in DOMAIN t : t[i].year = y})
Q3Years(t, lo, hi, m) ==
  {y \in {t[i].year : i \in DOMAIN t} : lo <= y /\ y <= hi /\ RowsOfYear(t, y) >= m}

\* C5: the smoothed series has one entry per filtered year; with w = 1 every
\* smoothed value is the raw yearly mean; with odd w > 1 the smoothed value at
\* a position with (w-1)/2 filtered rows on each side is the mean of the w raw
\* means centred on it, and at every other position it is missing.
C5_CentredSmoothing ==
  Q3Done =>
    LET out == derived.table
        w == params.smooth_window
        h == (w - 1) \div 2
        n == Len(out)
    IN  /\ n = Cardinality(Q3Years(df, params.year_range[1], params.year_range[2],
                                   params.min_count_year))
        /\ \A i \in 1..n :
             LET rows == {k \in DOMAIN df : df[k].year = out[i].year}
             IN  out[i].mean_rating.num * Cardinality(rows)
                   = out[i].mean_rating.den * SumInt(RatingsOf(SelectSeq(df, LAMBDA r : r.year = out[i].year)))
        /\ w = 1 => \A i \in 1..n : out[i].mean_rating_smoothed = out[i].mean_rating
        /\ (w > 1 /\ w % 2 = 1) =>
             \A i \in 1..n :
               IF i - h >= 1 /\ i + h <= n
                 THEN /\ ~out[i].mean_rating_smoothed.isna
                      /\ RatSum([k \in 1..w |-> out[i - h + k - 1].mean_rating])
                           = Rat(w * out[i].mean_rating_smoothed.num,
                                 out[i].mean_rating_smoothed.den)
                 ELSE out[i].mean_rating_smoothed.isna

\* a window of 3 over at least 4 years: missing at both edges, a mean inside
C5_Witness ==
  /\ Q3Done
  /\ params.smooth_window = 3
  /\ Len(derived.table) >= 4
  /\ derived.table[1].mean_rating_smoothed.isna
  /\ derived.table[Len(derived.table)].mean_rating_smoothed.isna
  /\ ~derived.table[2].mean_rating_smoothed.isna
  /\ derived.table[2].mean_rating_smoothed # derived.table[2].mean_rating

\* C10: the Q3 output has exactly one row for each release year y with
\* lo <= y <= hi and at least m ratings, carrying that year's rating count, in
\* strictly ascending year order (so it is empty when no year passes).
C10_YearRowsExact ==
  Q3Done =>
    LET out == derived.table
        pass == Q3Years(df, params.year_range[1], params.year_range[2],
                        params.min_count_year)
    IN  /\ {out[i].year : i \in DOMAIN out} = pass
        /\ Len(out) = Cardinality(pass)
        /\ \A i \in DOMAIN out : out[i].n_ratings = RowsOfYear(df, out[i].year)
        /\ \A i \in 1..(Len(out) - 1) : out[i].year < out[i + 1].year
        /\ pass = {} => out = <<>>

\* the first kept year is lo itself, a year is cut by the range and one by m
C10_Witness ==
  /\ Q3Done
  /\ Len(derived.table) >= 2
  /\ derived.table[1].year = params.year_range[1]
  /\ \E i \in DOMAIN df : df[i].year < params.year_range[1]
  /\ \E i \in DOMAIN df :
       /\ df[i].year > params.year_range[1]
       /\ df[i].year < params.year_range[2]
       /\ RowsOfYear(df, df[i].year) < params.min_count_year

(***************************************************************************)
(* Properties of the Q4 block.                                             *)
(***************************************************************************)
Q4Done == derived.tab = "Q4"
KeyOf(r) == <<r.movie_id, r.title>>
MoviesIn(t) == {KeyOf(t[i]) : i \in DOMAIN t}
RowsOfMovie(t, k) == Cardinality({i \in DOMAIN t : KeyOf(t[i]) = k})
RatingSumOfMovie(t, k) == SumInt(RatingsOf(SelectSeq(t, LAMBDA r : KeyOf(r) = k)))
\* movie a ranks strictly before movie b: higher mean, or equal mean and more ratings
MovieStrictlyBefore(t, a, b) ==
  LET sa == RatingSumOfMovie(t, a)
      na == RowsOfMovie(t, a)
      sb == RatingSumOfMovie(t, b)
      nb == RowsOfMovie(t, b)
  IN  \/ sa * nb > sb * na
      \/ sa * nb = sb * na /\ na > nb

\* C3: the Q4 output has exactly min(N, number of (movie_id, title) groups with
\* n_ratings >= m) rows, each with n_ratings >= m, non-increasing in mean
\* rating, non-increasing in n_ratings among equal means, and no movie left out
\* ranks strictly before an included one.
C3_TopMoviesRanked ==
  Q4Done =>
    LET out == derived.table
        m == params.min_ratings_movie
        pass == {k \in MoviesIn(df) : RowsOfMovie(df, k) >= m}
        shown == {KeyOf(out[i]) : i \in DOMAIN out}
    IN  /\ Len(out) = Min(params.top_n, Cardinality(pass))
        /\ Cardinality(shown) = Len(out)
        /\ shown \subseteq pass
        /\ \A i \in DOMAIN out :
             /\ out[i].n_ratings >= m
             /\ out[i].n_ratings = RowsOfMovie(df, KeyOf(out[i]))
             /\ out[i].mean_rating.num * out[i].n_ratings
                  = out[i].mean_rating.den * RatingSumOfMovie(df, KeyOf(out[i]))
        /\ \A i \in 1..(Len(out) - 1) :
             /\ RatLeq(out[i + 1].mean_rating, out[i].mean_rating)
             /\ out[i + 1].mean_rating = out[i].mean_rating
                  => out[i + 1].n_ratings <= out[i].n_ratings
        /\ \A k \in pass \ shown : \A j \in shown : ~MovieStrictlyBefore(df, k, j)

\* four movies pass, three are shown; a tie in the mean is broken by the count
C3_Witness ==
  /\ Q4Done
  /\ params.top_n = 3
  /\ Len(derived.table) = 3
  /\ Cardinality({k \in MoviesIn(df) : RowsOfMovie(df, k) >= params.min_ratings_movie}) = 4
  /\ RatLess(derived.table[2].mean_rating, derived.table[1].mean_rating)
  /\ derived.table[2].mean_rating = derived.table[3].mean_rating
  /\ derived.table[2].n_ratings > derived.table[3].n_ratings

(***************************************************************************)
(* Properties of the Q7 block.                                             *)
(***************************************************************************)
Q7Done == derived.tab = "Q7"
\* The tokens of a genres cell, read off the string: the k-th token lies
\* between the (k-1)-th and the k-th separator.
PipesBefore(s, i) == Cardinality({j \in 1..(i - 1) : s[j] = PipeChar})
TokenCount(cell) == IF cell.isna THEN 1 ELSE 1 + PipesBefore(cell.str, Len(cell.str) + 1)
Token(cell, k) ==
  IF cell.isna THEN NoGenresLabel
  ELSE LET s == cell.str
           idx == {i \in DOMAIN s : s[i] # PipeChar /\ PipesBefore(s, i) = k - 1}
       IN  Str([n \in 1..Cardinality(idx) |->
                  s[CHOOSE i \in idx : Cardinality({j \in idx : j < i}) = n - 1]])
RowsBefore(t, i) == SumInt([k \in 1..(i - 1) |-> TokenCount(t[k].genres)])

\* C6: every source row whose genres is a string of k pipe-delimited tokens
\* yields exactly k cleaned rows, one per token in token order, all other
\* fields as in the source row; a row with a null genres yields one row with
\* genre "(no genres listed)"; the cleaned table has no other rows.
C6_ExplodeRows ==
  Q7Done =>
    LET out == derived.table
    IN  /\ Len(out) = RowsBefore(csv, Len(csv) + 1)
        /\ \A i \in DOMAIN csv : \A k \in 1..TokenCount(csv[i].genres) :
             out[RowsBefore(csv, i) + k] = [csv[i] EXCEPT !.genres = Token(csv[i].genres, k)]

\* a row "A|B" and a row without genres in one table
C6_Witness ==
  /\ Q7Done
  /\ \E i \in DOMAIN csv : csv[i].genres = Str(<<"A", PipeChar, "B">>)
  /\ \E i \in DOMAIN csv : csv[i].genres.isna
  /\ Len(derived.table) = 3

(***************************************************************************)
(* Properties of main().                                                   *)
(***************************************************************************)
Count(s, x) == Cardinality({i \in DOMAIN s : s[i] = x})
Charts == {"Q1 pie", "Q2 bar", "Q3 line", "Q4 bar", "Q5 line", "Q6 scatter"}

\* C7: a load that fails on the missing file is caught: one error message is
\* shown, the views that depend on it are skipped (primary load: nothing after
\* the header is rendered; Q7 load: no Q7 preview, Q1-Q6 stay rendered), and
\* main returns without an exception.
C7_MissingFileHandled ==
  [][/\ (pc = "main" /\ pc' # "main" /\ ~file_exists /\ ~cache[PRIMARY].hit) =>
          /\ pc' = "returned"
          /\ exc' = "none"
          /\ ui' = <<"title", "caption", "error">>
          /\ derived' = NoDerived
     /\ (pc = "Q7" /\ pc' # "Q7" /\ ~file_exists /\ ~cache[EC].hit) =>
          /\ pc' = "returned"
          /\ exc' = "none"
          /\ Count(ui', "error") = 1
          /\ Count(ui', "Q7 raw preview") = 0
          /\ Count(ui', "Q7 cleaned preview") = 0
          /\ \A c \in Charts : Count(ui', c) = 1
          /\ derived'.tab # "Q7"]_vars

\* main has returned after a failed Q7 load, Q1-Q6 on screen
C7_Witness ==
  /\ pc = "returned"
  /\ exc = "none"
  /\ Count(ui, "error") = 1
  /\ Count(ui, "Q6 scatter") = 1
  /\ Count(ui, "Q7 raw preview") = 0

\* C8 as stated: for every loaded table, one with zero rows included, and every
\* parameter combination, Q1-Q7 complete and no exception leaves main.
C8_AsStated == exc = "none" /\ pc # "raised"

\* C9 as stated: after Q1-Q7 have run the tables returned by the loaders hold
\* the values they had when loaded, and the cached dataset is unchanged.
C9_AsStated ==
  (pc = "returned" /\ derived.tab = "Q7") =>
    /\ df = csv
    /\ df_ec = csv
    /\ \A l \in Loaders : cache[l].hit => cache[l].val = csv

====
